---- MODULE Spec2Model ----
(***************************************************************************)
(* Model of the GNOME Shell extension translator@com.translator.desktop.    *)
(*                                                                         *)
(*  - prefs.js    : the preferences window, its tracked D-Bus calls         *)
(*                  (callDbus / activeCalls / close-request).               *)
(*  - extension.js: the hotkey controller, the selection debouncer and the  *)
(*                  retrying fire-and-forget D-Bus dispatch.                *)
(*                                                                         *)
(* The preferences window and the shell extension run in different          *)
(* processes, so each has its own specification over its own variables.     *)
(* Every handler runs to completion on a single-threaded main loop: one     *)
(* action is one handler.                                                   *)
(***************************************************************************)
EXTENDS Naturals, Sequences, FiniteSets

\* ------------------------------------------------------------------- state

\* prefs.js: the preferences window
VARIABLES
    windowOpen,     \* the preferences window has not yet had close-request
    activeCalls,    \* prefs.js:146  the Set of Gio.Cancellable handles
    calls,          \* one record per callDbus invocation; its index is the handle
    dialogs         \* the "Select Anki deck" dialogs that are presented

\* extension.js: the hotkey controller
VARIABLES
    settingsStore,      \* the strv stored under the key "hotkey" (GSettings)
    changePending,      \* queued changed::hotkey notifications for the handler
    settings,           \* this._settings is non-null
    settingsChangedId,  \* this._settingsChangedId (0: not connected)
    indicator,          \* this._indicator is non-null
    clipboard,          \* this._clipboard is non-null
    hotkey,             \* this._hotkey, the cached binding
    hotkeyRegistered,   \* this._hotkeyRegistered
    wmBound,            \* Main.wm holds a keybinding named "hotkey"
    wmLog               \* the Main.wm calls the last extension handler made

\* extension.js: selection capture and debouncer
VARIABLES
    presses,            \* hotkey presses so far
    reads,              \* St.Clipboard.get_text callbacks not yet delivered
    oldtext,            \* this._oldtext
    pendingText,        \* this._pendingText
    hotkeyDebounceId,   \* this._hotkeyDebounceId (0: none)
    timers,             \* the live GLib debounce sources, by source id
    emitted             \* what the last debounce expiry did

\* extension.js: the retrying dispatch
VARIABLES
    proxy,              \* this._proxy: "null" or "proxy"
    dispatches          \* one record per _callDbus invocation

\* extension.js: one invocation of _sanitizeText, taken on its own
VARIABLES
    sanitizeCall        \* its argument, whether it returned, and its result

prefsVars == <<windowOpen, activeCalls, calls, dialogs>>

hotkeyVars ==
    <<settingsStore, changePending, settings, settingsChangedId, indicator,
      clipboard, hotkey, hotkeyRegistered, wmBound, wmLog>>

debounceVars ==
    <<presses, reads, oldtext, pendingText, hotkeyDebounceId, timers, emitted>>

retryVars == <<proxy, dispatches>>

sanitizeVars == <<sanitizeCall>>

extVars == <<hotkeyVars, debounceVars, retryVars, sanitizeVars>>

vars == <<prefsVars, extVars>>

\* ------------------------------------------------------------------ bounds

\* Number of callDbus invocations of one preferences window that are explored.
MaxCalls == 3

\* ================================================================ prefs.js

Handles == 1..Len(calls)

\* The deck lists and strings the backend's replies are drawn from.
DeckLists == {<<>>, <<"Deck A">>, <<"Deck A", "Deck B">>}
ReplyMessages == {"", "done"}
ReplyErrors == {"", "anki offline"}
ErrorMessages == {"", "backend unavailable"}

\* What conn.call_finish(res) delivers for a method: a reply value, or a throw.
Reply(message, decks, error) ==
    [kind |-> "reply", message |-> message, decks |-> decks, error |-> error]

Thrown(cancelled, message) ==
    [kind |-> "error", cancelled |-> cancelled, message |-> message]

RepliesOf(method) ==
    IF method = "ListAnkiDecks"
    THEN {Reply("", d, e) : d \in DeckLists, e \in ReplyErrors}
    ELSE {Reply(m, <<>>, "") : m \in ReplyMessages}

TransportErrors == {Thrown(FALSE, m) : m \in ErrorMessages}

\* A Gio.Cancellable that was cancelled makes call_finish throw
\* G_IO_ERROR_CANCELLED, whatever the transport produced.
CancelledError == Thrown(TRUE, "Operation was cancelled")

\* prefs.js:201-208  showMessage: the toasts it adds for a text.
showMessage(text) == IF text = "" THEN <<>> ELSE <<text>>

\* prefs.js:239-242  the text of the default error handler.
defaultErrorText(error) ==
    IF error.message # "" THEN "D-Bus call failed: <message>" ELSE "D-Bus call failed."

\* prefs.js:310-312  the text of the importButton's onError.
loadDecksErrorText(error) ==
    IF error.message # "" THEN "Failed to load decks: <message>" ELSE "Failed to load decks."

\* The onError argument each call site passes to callDbus:
\*   refreshStatus passes () => {}, the importButton handler passes a reporter,
\*   every other call site omits it (null).
onErrorOf(method) ==
    CASE method = "GetAnkiStatus" -> "ignore"
      [] method = "ListAnkiDecks" -> "loadDecksFailed"
      [] OTHER -> "null"

\* A freshly issued tracked call.  cancelReq: cancel() was called on its handle;
\* cancelled: that cancel() took effect; failed, cb, shown: what its completion
\* threw, which callback ran and the toasts it added; trackedAtCb: whether the
\* handle was in activeCalls when that callback started; value: the reply
\* call_finish(res).deep_unpack() handed to onSuccess.
NoValue == [kind |-> "none", message |-> "", decks |-> <<>>, error |-> ""]

NewCall(method, arg) ==
    [method |-> method, arg |-> arg, state |-> "inflight",
     cancelReq |-> FALSE, cancelled |-> FALSE,
     failed |-> FALSE, cb |-> "none", shown |-> <<>>, trackedAtCb |-> FALSE,
     value |-> NoValue]

\* prefs.js:217-229  callDbus up to the asynchronous call: a new cancellable is
\* added to activeCalls and exactly one call is issued.
callDbus(method, arg) ==
    /\ calls' = Append(calls, NewCall(method, arg))
    /\ activeCalls' = activeCalls \cup {Len(calls) + 1}

\* The toasts onSuccess adds for a reply, and the dialog it presents (if any).
\*   GetAnkiStatus: updateStatus only.
\*   CreateAnkiModel / SelectAnkiDeck / SaveSettings: handleActionResult.
\*   ListAnkiDecks: prefs.js:270-308.
successToasts(method, value) ==
    CASE method = "GetAnkiStatus" -> <<>>
      [] method = "ListAnkiDecks" ->
            IF value.error # "" THEN showMessage(value.error)
            ELSE IF Len(value.decks) = 0 THEN showMessage("No Anki decks found.")
            ELSE <<>>
      [] OTHER -> showMessage(value.message)

\* An importButton onSuccess that looks at the deck list only.
successDialogIgnoringError(h, method, value) ==
    IF method = "ListAnkiDecks" /\ Len(value.decks) > 0
    THEN {[from |-> h, decks |-> value.decks]}
    ELSE {}

\* prefs.js:270-292  the deck dialog onSuccess presents for a reply.
successDialog(h, method, value) ==
    IF method = "ListAnkiDecks" /\ value.error = "" /\ Len(value.decks) > 0
    THEN {[from |-> h, decks |-> value.decks]}
    ELSE {}

\* An error branch that always runs the default handler's message.
errorToastsAlwaysDefault(method, error) == showMessage(defaultErrorText(error))

\* A default handler that reports only the error's own message.
errorToastsMessageOnly(method, error) ==
    IF onErrorOf(method) = "ignore" THEN <<>> ELSE showMessage(error.message)

\* The toasts the error branch adds (prefs.js:235-244).
errorToasts(method, error) ==
    CASE onErrorOf(method) = "ignore" -> <<>>
      [] onErrorOf(method) = "loadDecksFailed" -> showMessage(loadDecksErrorText(error))
      [] OTHER -> showMessage(defaultErrorText(error))

errorCallback(method) == IF onErrorOf(method) = "null" THEN "default" ELSE "onError"

\* What call_finish can deliver for handle h.
OutcomesOf(h) ==
    IF calls[h].cancelled THEN {CancelledError}
    ELSE RepliesOf(calls[h].method) \cup TransportErrors

\* A completion callback that forgets activeCalls.delete(cancellable).
afterDeleteForgotten(h) == activeCalls

\* The set activeCalls is after the completion callback's first statement.
afterDelete(h) == activeCalls \ {h}

\* prefs.js:230-245  the completion callback of handle h with outcome out.
completion(h, out) ==
    LET c == calls[h]
        tracked == afterDelete(h)
        done == [c EXCEPT !.state = "done", !.trackedAtCb = (h \in tracked)]
    IN  /\ activeCalls' = tracked
        /\ IF out.kind = "reply"
           THEN /\ calls' = [calls EXCEPT ![h] =
                        [done EXCEPT !.cb = "onSuccess",
                                     !.value = out,
                                     !.shown = successToasts(c.method, out)]]
                /\ dialogs' = dialogs \cup successDialog(h, c.method, out)
           ELSE /\ calls' = [calls EXCEPT ![h] =
                        [done EXCEPT !.failed = TRUE,
                                     !.cb = errorCallback(c.method),
                                     !.shown = errorToasts(c.method, out)]]
                /\ dialogs' = dialogs

\* The handles a loop over activeCalls (insertion order) reaches when the first
\* throwing cancel() ends it.
firstThrower(throwers) == CHOOSE t \in throwers : \A u \in throwers : t <= u

\* The close-request handler without the try/catch around cancel().
closeRequestNoCatch(throwers) ==
    IF throwers = {} 
    THEN /\ calls' = [h \in Handles |->
                        IF h \in activeCalls
                        THEN [calls[h] EXCEPT !.cancelReq = TRUE, !.cancelled = TRUE]
                        ELSE calls[h]]
         /\ activeCalls' = {}
    ELSE /\ calls' = [h \in Handles |->
                        IF h \in activeCalls /\ h <= firstThrower(throwers)
                        THEN [calls[h] EXCEPT !.cancelReq = TRUE,
                                              !.cancelled = (h \notin throwers)]
                        ELSE calls[h]]
         /\ activeCalls' = activeCalls

\* prefs.js:148-156  the close-request handler.  throwers are the handles whose
\* cancel() throws; the throw is swallowed by the try/catch around each cancel.
closeRequest(throwers) ==
    /\ calls' = [h \in Handles |->
                    IF h \in activeCalls
                    THEN [calls[h] EXCEPT !.cancelReq = TRUE,
                                          !.cancelled = (h \notin throwers)]
                    ELSE calls[h]]
    /\ activeCalls' = {}

\* ------------------------------------------------------------ prefs actions

InitPrefs ==
    \* prefs.js:322  fillPreferencesWindow ends with refreshStatus().
    /\ windowOpen = TRUE
    /\ calls = <<NewCall("GetAnkiStatus", "none")>>
    /\ activeCalls = {1}
    /\ dialogs = {}

\* prefs.js:262-264, 266-267, 318-320  a click on create / import / save.
ButtonMethods == {"CreateAnkiModel", "ListAnkiDecks", "SaveSettings"}

Click(method) ==
    /\ windowOpen
    /\ Len(calls) < MaxCalls
    /\ callDbus(method, "none")
    /\ UNCHANGED <<windowOpen, dialogs>>
    /\ UNCHANGED extVars

\* prefs.js:293-306  the dialog's response handler.
DialogSelect(d, index) ==
    /\ windowOpen
    /\ d \in dialogs
    /\ index \in 1..Len(d.decks)
    /\ Len(calls) < MaxCalls
    /\ callDbus("SelectAnkiDeck", d.decks[index])
    /\ dialogs' = dialogs \ {d}
    /\ UNCHANGED windowOpen
    /\ UNCHANGED extVars

DialogCancel(d) ==
    /\ windowOpen
    /\ d \in dialogs
    /\ dialogs' = dialogs \ {d}
    /\ UNCHANGED <<windowOpen, activeCalls, calls>>
    /\ UNCHANGED extVars

Complete(h, out) ==
    /\ h \in Handles
    /\ calls[h].state = "inflight"
    /\ out \in OutcomesOf(h)
    /\ completion(h, out)
    /\ UNCHANGED windowOpen
    /\ UNCHANGED extVars

CloseRequest(throwers) ==
    /\ windowOpen
    /\ throwers \subseteq activeCalls
    /\ closeRequest(throwers)
    /\ windowOpen' = FALSE
    /\ UNCHANGED dialogs
    /\ UNCHANGED extVars

NextPrefs ==
    \/ \E m \in ButtonMethods : Click(m)
    \/ \E d \in dialogs : \E i \in 1..Len(d.decks) : DialogSelect(d, i)
    \/ \E d \in dialogs : DialogCancel(d)
    \/ \E h \in Handles : \E out \in OutcomesOf(h) : Complete(h, out)
    \/ \E t \in SUBSET activeCalls : CloseRequest(t)

\* ------------------------------------------------------- prefs properties

\* C1: once cancel() has been requested on a tracked call's handle, the call's
\* completion runs none of onSuccess, onError and the default error handler.
C1_NoCallbackAfterCancel ==
    \A h \in Handles : calls[h].cancelReq => calls[h].cb = "none"

\* C5 (as claimed): every tracked call that fails shows exactly one message.
C5_OneMessagePerFailedCall ==
    \A h \in Handles : calls[h].failed => Len(calls[h].shown) = 1

\* C5 (amended): a failed CreateAnkiModel, ListAnkiDecks, SelectAnkiDeck or
\* SaveSettings call shows exactly one message; a failed GetAnkiStatus call
\* shows none.
C5_OneMessagePerFailedAction ==
    \A h \in Handles :
        calls[h].failed =>
            Len(calls[h].shown) = (IF calls[h].method = "GetAnkiStatus" THEN 0 ELSE 1)

C5_Witness ==
    /\ \E h \in Handles :
          calls[h].failed /\ calls[h].method = "GetAnkiStatus" /\ calls[h].shown = <<>>
    /\ \E h \in Handles :
          calls[h].failed /\ calls[h].method = "SaveSettings"
              /\ calls[h].shown = <<"D-Bus call failed.">>

\* C8: while the window is open activeCalls is exactly the set of handles whose
\* call was issued and has neither completed nor been cancelled, and no
\* callback has started with its own handle still in the set.
C8_TrackedSet ==
    /\ windowOpen =>
          activeCalls = {h \in Handles :
                            calls[h].state = "inflight" /\ ~calls[h].cancelReq}
    /\ \A h \in Handles : calls[h].cb # "none" => ~calls[h].trackedAtCb

C8_Witness ==
    /\ windowOpen
    /\ \E h \in Handles : h \in activeCalls
    /\ \E h \in Handles : calls[h].cb = "onSuccess"
    /\ \E h \in Handles : calls[h].cb = "default"

\* C9: the step of the close-request handler leaves activeCalls empty and has
\* requested cancel() on every handle that was in it, whether or not a
\* cancel() threw.
C9_CancelAllEmpties ==
    [][(windowOpen /\ ~windowOpen') =>
          /\ activeCalls' = {}
          /\ \A h \in activeCalls : calls'[h].cancelReq]_vars

C9_Witness ==
    /\ ~windowOpen
    /\ activeCalls = {}
    /\ Cardinality({h \in Handles : calls[h].cancelReq}) >= 2
    /\ \E h \in Handles : calls[h].cancelReq /\ ~calls[h].cancelled

\* The texts of the default error handler (prefs.js:239-242).
DefaultErrorTexts == {"D-Bus call failed.", "D-Bus call failed: <message>"}

ShownTexts(h) == {calls[h].shown[k] : k \in 1..Len(calls[h].shown)}

\* C13: a call whose completion threw runs the supplied onError and shows no
\* default message when the call site passed one; it runs the default handler,
\* which shows a 'D-Bus call failed' message, when the call site passed none;
\* onSuccess runs in neither case.
C13_ErrorRouting ==
    \A h \in Handles :
        calls[h].failed =>
            /\ calls[h].cb # "onSuccess"
            /\ calls[h].value = NoValue
            /\ IF onErrorOf(calls[h].method) = "null"
               THEN /\ calls[h].cb = "default"
                    /\ Len(calls[h].shown) = 1
                    /\ ShownTexts(h) \subseteq DefaultErrorTexts
               ELSE /\ calls[h].cb = "onError"
                    /\ ShownTexts(h) \cap DefaultErrorTexts = {}

C13_Witness ==
    /\ \E h \in Handles :
          /\ calls[h].failed
          /\ calls[h].method = "ListAnkiDecks"
          /\ calls[h].shown = <<"Failed to load decks: <message>">>
    /\ \E h \in Handles :
          /\ calls[h].failed
          /\ calls[h].method = "SaveSettings"
          /\ calls[h].shown = <<"D-Bus call failed.">>

\* The decks of a reply, as a set.
DecksOf(value) == {value.decks[k] : k \in 1..Len(value.decks)}

\* The ListAnkiDecks call of handle g ended in onSuccess with a usable list.
UsableDeckList(g) ==
    /\ calls[g].method = "ListAnkiDecks"
    /\ calls[g].cb = "onSuccess"
    /\ calls[g].value.error = ""
    /\ Len(calls[g].value.decks) > 0

\* C16: a SelectAnkiDeck call is issued only by the 'select' response of the
\* dialog of a ListAnkiDecks reply with an empty error and a non-empty list,
\* and its argument is a deck of that list; a ListAnkiDecks reply with an error
\* or an empty list shows a message and never gets a dialog, hence no
\* SelectAnkiDeck.
C16_SelectAfterList ==
    /\ [][\A h \in 1..Len(calls') :
            (h > Len(calls) /\ calls'[h].method = "SelectAnkiDeck") =>
               \E d \in dialogs \ dialogs' :
                  /\ UsableDeckList(d.from)
                  /\ d.decks = calls[d.from].value.decks
                  /\ calls'[h].arg \in DecksOf(calls[d.from].value)]_vars
    /\ [](\A g \in Handles :
            (/\ calls[g].method = "ListAnkiDecks"
             /\ calls[g].cb = "onSuccess"
             /\ ~UsableDeckList(g)) =>
               /\ Len(calls[g].shown) = 1
               /\ \A d \in dialogs : d.from # g)

C16_Witness ==
    \E h \in Handles :
        /\ calls[h].method = "SelectAnkiDeck"
        /\ calls[h].arg = "Deck B"
        /\ calls[h].cb = "onSuccess"

\* ============================================================ extension.js

\* ------------------------------------------------------------------ bounds

\* Change notifications that may be queued for the extension at one time.
MaxPending == 2

\* The values the settings store takes: the preferences window writes [] or
\* [accel]; other writers (dconf, gsettings) may write any list.
Accels == {"<Super>t", "<Control>y"}
StoreValues ==
    {<<>>} \cup {<<a>> : a \in Accels} \cup {<<"">>, <<"", "<Super>t">>,
                                              <<"<Super>t", "<Control>y">>}

\* extension.js:101-107  _getHotkeyValue.
getHotkeyValue(settingsObj, store) ==
    IF ~settingsObj THEN ""
    ELSE IF Len(store) # 0 THEN store[1] ELSE ""

\* The part of the state _registerHotkey and _unregisterHotkey work on.
\* dup records an addKeybinding made while the binding was still held.
HotkeyState ==
    [registered |-> hotkeyRegistered, bound |-> wmBound, log |-> <<>>, dup |-> FALSE]

\* A _registerHotkey that does not look at the binding's value.
registerHotkeyUnchecked(s, settingsObj, store) ==
    IF ~settingsObj THEN s
    ELSE [s EXCEPT !.registered = TRUE, !.bound = TRUE,
                   !.log = Append(s.log, "addKeybinding"),
                   !.dup = s.dup \/ s.bound]

\* extension.js:119-135  _registerHotkey.
registerHotkey(s, settingsObj, store) ==
    IF ~settingsObj THEN s
    ELSE IF getHotkeyValue(settingsObj, store) = "" THEN s
    ELSE [s EXCEPT !.registered = TRUE, !.bound = TRUE,
                   !.log = Append(s.log, "addKeybinding"),
                   !.dup = s.dup \/ s.bound]

\* extension.js:137-145  _unregisterHotkey (a throw of removeKeybinding is
\* swallowed).
unregisterHotkey(s) ==
    IF ~s.registered THEN s
    ELSE [s EXCEPT !.registered = FALSE, !.bound = FALSE,
                   !.log = Append(s.log, "removeKeybinding")]

\* An _onHotkeyChanged that registers the new binding without unregistering
\* the old one.
onHotkeyChangedNoUnregister(s, cached, settingsObj, store) ==
    LET next == getHotkeyValue(settingsObj, store)
    IN  IF next = cached
        THEN [cache |-> cached, hk |-> s]
        ELSE [cache |-> next, hk |-> registerHotkey(s, settingsObj, store)]

\* An _onHotkeyChanged without the comparison with the cached value.
onHotkeyChangedAlwaysRebind(s, cached, settingsObj, store) ==
    [cache |-> getHotkeyValue(settingsObj, store),
     hk |-> registerHotkey(unregisterHotkey(s), settingsObj, store)]

\* extension.js:109-117  _onHotkeyChanged: the cached value and the hotkey
\* state it leaves.
onHotkeyChanged(s, cached, settingsObj, store) ==
    LET next == getHotkeyValue(settingsObj, store)
    IN  IF next = cached
        THEN [cache |-> cached, hk |-> s]
        ELSE [cache |-> next,
              hk |-> registerHotkey(unregisterHotkey(s), settingsObj, store)]

SetHotkeyState(s) ==
    /\ hotkeyRegistered' = s.registered
    /\ wmBound' = s.bound
    /\ wmLog' = s.log

\* extension.js:63-81  enable(), the hotkey controller's part.
enableHotkey ==
    /\ settings' = TRUE
    /\ clipboard' = TRUE
    /\ hotkey' = getHotkeyValue(TRUE, settingsStore)
    /\ settingsChangedId' = 1
    /\ SetHotkeyState(registerHotkey([HotkeyState EXCEPT !.registered = FALSE],
                                     TRUE, settingsStore))
    /\ indicator' = TRUE
    /\ UNCHANGED <<settingsStore, changePending>>

\* extension.js:83-99  disable(), the hotkey controller's part.  Disconnecting
\* the handler drops the notifications that were queued for it.
disableHotkey ==
    /\ SetHotkeyState([unregisterHotkey(HotkeyState) EXCEPT !.registered = FALSE])
    /\ settingsChangedId' = 0
    /\ changePending' = 0
    /\ indicator' = FALSE
    /\ clipboard' = FALSE
    /\ settings' = FALSE
    /\ hotkey' = ""
    /\ UNCHANGED settingsStore

InitHotkey ==
    /\ settingsStore \in StoreValues
    /\ changePending = 0
    /\ settings = FALSE
    /\ settingsChangedId = 0
    /\ indicator = FALSE
    /\ clipboard = FALSE
    /\ hotkey = ""
    /\ hotkeyRegistered = FALSE
    /\ wmBound = FALSE
    /\ wmLog = <<>>

\* ------------------------------------------------- selection and debouncer

\* Hotkey presses explored in one behaviour.
MaxPresses == 3

\* extension.js:26
MAX_TEXT_LEN == 200

\* A text is a sequence of code units; Null is JavaScript's null.
Null == <<"null">>

\* The primary selections the shell delivers.
SelectionTexts ==
    {Null, <<>>, <<"/", "e", "t", "c">>, <<"1", "-", "2">>, <<"h", "i">>,
     <<"y", "o">>, <<"h", "t", "t", "p", ":", "/", "/", "a">>}

Digits == {"0", "1", "2", "3", "4", "5", "6", "7", "8", "9"}
Whitespace == {" ", "\t", "\n"}

\* extension.js:23  TEXT_FILTER = /^[.\s\d-]+$/
matchesTextFilter(t) ==
    /\ Len(t) > 0
    /\ \A k \in 1..Len(t) : t[k] \in {".", "-"} \cup Digits \cup Whitespace

\* Util.findUrls (GNOME Shell), reduced to its scheme:// alternative: a URL
\* starts at the beginning or after whitespace and has a character after the
\* scheme.
hasUrl(t) ==
    \E k \in 1..Len(t) :
        /\ k + 7 <= Len(t)
        /\ SubSeq(t, k, k + 6) = <<"h", "t", "t", "p", ":", "/", "/">>
        /\ t[k + 7] \notin Whitespace
        /\ (k = 1 \/ t[k - 1] \in Whitespace)

\* A _sanitizeText without the leading-slash test.
sanitizeTextSlashAllowed(text) ==
    IF text = Null \/ text = <<>> THEN Null
    ELSE LET trimmed == IF Len(text) > MAX_TEXT_LEN
                        THEN SubSeq(text, 1, MAX_TEXT_LEN) ELSE text
         IN  IF hasUrl(trimmed) \/ matchesTextFilter(trimmed) THEN Null ELSE trimmed

\* A _sanitizeText that runs its tests on the text before truncating it.
sanitizeTextChecksWhole(text) ==
    IF text = Null \/ text = <<>> THEN Null
    ELSE IF text[1] = "/" \/ hasUrl(text) \/ matchesTextFilter(text) THEN Null
    ELSE IF Len(text) > MAX_TEXT_LEN THEN SubSeq(text, 1, MAX_TEXT_LEN) ELSE text

\* extension.js:162-180  _sanitizeText.
sanitizeText(text) ==
    IF text = Null \/ text = <<>> THEN Null
    ELSE LET trimmed == IF Len(text) > MAX_TEXT_LEN
                        THEN SubSeq(text, 1, MAX_TEXT_LEN) ELSE text
         IN  IF \/ trimmed = <<>>
                \/ trimmed[1] = "/"
                \/ hasUrl(trimmed)
                \/ matchesTextFilter(trimmed)
             THEN Null
             ELSE trimmed

\* How many code units beyond MAX_TEXT_LEN the explored texts reach.
MaxOver == 2

\* The texts _sanitizeText is explored on: a head, a run of one code unit and a
\* tail, with lengths up to and just over MAX_TEXT_LEN.
Fill(c, n) == [k \in 1..n |-> c]

SanitizeHeads ==
    {<<>>, <<"/", "p", "a", "t", "h">>, <<"h", "i">>, <<"1", "-", "2">>,
     <<"h", "t", "t", "p", ":", "/", "/", "a">>}

SanitizeFills == {"a", "1", " "}

SanitizeTails ==
    {<<>>, <<"z">>, <<".">>, <<" ", "h", "t", "t", "p", ":", "/", "/", "b">>}

SanitizeRuns == {0} \cup ((MAX_TEXT_LEN - 12)..(MAX_TEXT_LEN + MaxOver))

SanitizeInputs ==
    {Null} \cup
    {h \o Fill(c, n) \o t :
        h \in SanitizeHeads, c \in SanitizeFills, n \in SanitizeRuns,
        t \in SanitizeTails}

\* GLib.timeout_add: the id of the new source.
newSourceId == CHOOSE k \in 1..(Cardinality(DOMAIN timers) + 1) : k \notin DOMAIN timers

\* Every live source has seen one more _scheduleTranslate call, with this text.
Notified(text) ==
    [t \in DOMAIN timers |-> [n |-> timers[t].n + 1, last |-> text]]

\* extension.js:182-200  _scheduleTranslate up to timeout_add.
scheduleTranslate(text) ==
    /\ pendingText' = text
    /\ IF hotkeyDebounceId # 0
       THEN /\ hotkeyDebounceId' = hotkeyDebounceId
            /\ timers' = Notified(text)
       ELSE /\ hotkeyDebounceId' = newSourceId
            /\ timers' = [t \in DOMAIN timers \cup {newSourceId} |->
                            IF t = newSourceId THEN [n |-> 1, last |-> text]
                            ELSE Notified(text)[t]]

\* A _clearDebounce that leaves this._pendingText as it is.
clearDebounceKeepsPending ==
    IF hotkeyDebounceId = 0
    THEN <<hotkeyDebounceId, pendingText, timers>>
    ELSE <<0, pendingText, [t \in DOMAIN timers \ {hotkeyDebounceId} |-> timers[t]]>>

\* extension.js:202-209  _clearDebounce, as the new <<id, pending, timers>>.
clearDebounce ==
    IF hotkeyDebounceId = 0
    THEN <<hotkeyDebounceId, pendingText, timers>>
    ELSE <<0, Null, [t \in DOMAIN timers \ {hotkeyDebounceId} |-> timers[t]]>>

\* ------------------------------------------------------ retrying dispatch

\* _callDbus invocations from the panel menu explored in one behaviour.
MaxDispatches == 2

\* extension.js:25
DBUS_RETRY_ATTEMPTS == 10

\* extension.js:28-32
DBUS_RETRYABLE_ERRORS ==
    {"org.freedesktop.DBus.Error.ServiceUnknown",
     "org.freedesktop.DBus.Error.UnknownObject",
     "org.freedesktop.DBus.Error.UnknownMethod"}

\* `${error}` of a failed call, as the sequence of its parts.
ErrorMessage(name) == <<"Gio.DBusError: GDBus.Error:", name, ": ...">>

CallErrors ==
    {ErrorMessage(n) : n \in DBUS_RETRYABLE_ERRORS
                            \cup {"org.freedesktop.DBus.Error.NoReply",
                                  "org.freedesktop.DBus.Error.InvalidArgs"}}

CallResults == {<<"ok">>} \cup CallErrors

\* message.includes(marker)
includes(message, marker) == \E k \in 1..Len(message) : message[k] = marker

\* extension.js:223-235  the try/catch around new_for_bus_sync: whether a throw
\* of the constructor leaves _getProxy.
getProxyThrows(cached, constructed) == FALSE

\* extension.js:219-237  _getProxy; constructed: new_for_bus_sync did not throw.
getProxy(cached, constructed) ==
    IF cached # "null" THEN cached
    ELSE IF constructed THEN "proxy" ELSE "null"

\* A dispatch: the closure state of one _callDbus.  phase is "timer" (a retry
\* timer is pending), "call" (proxy.call is in flight) or "done" ("new" before
\* its first attempt).  The other
\* fields record what its attempts did: called (a proxy.call was issued),
\* allAbsent (_getProxy returned null on every attempt so far), threw (an
\* attempt raised an error), lastFailure (the class of the error the call of the
\* current attempt ended with).
NewDispatch(method, parameters) ==
    [method |-> method, parameters |-> parameters, attempt |-> 0, phase |-> "new",
     called |-> FALSE, allAbsent |-> TRUE, threw |-> FALSE, lastFailure |-> "none",
     sentAfter |-> {}]

\* Dispatch d is a Translate call the backend has answered without error
\* (a dispatch that ended below the attempt ceiling with no failure).
Delivered(d) ==
    /\ dispatches[d].method = "Translate"
    /\ dispatches[d].phase = "done"
    /\ dispatches[d].lastFailure = "none"
    /\ dispatches[d].attempt < DBUS_RETRY_ATTEMPTS

\* A _scheduleRetry whose ceiling test is off by one.
scheduleRetryOffByOne(r) ==
    IF r.attempt > DBUS_RETRY_ATTEMPTS
    THEN [r EXCEPT !.phase = "done"]
    ELSE [r EXCEPT !.phase = "timer"]

\* extension.js:274-282  _scheduleRetry(method, parameters, attempt).
scheduleRetry(r) ==
    IF r.attempt >= DBUS_RETRY_ATTEMPTS
    THEN [r EXCEPT !.phase = "done"]
    ELSE [r EXCEPT !.phase = "timer"]

\* extension.js:243-254  _callDbusWithRetry with the proxy _getProxy returned.
callDbusWithRetry(r, p) ==
    IF p = "null"
    THEN scheduleRetry(r)
    ELSE [r EXCEPT !.phase = "call", !.called = TRUE,
                   !.sentAfter = {d \in DOMAIN dispatches : Delivered(d)}]

\* extension.js:260-262  shouldRetry.
shouldRetry(attempt, message) ==
    /\ attempt < DBUS_RETRY_ATTEMPTS
    /\ \E marker \in DBUS_RETRYABLE_ERRORS : includes(message, marker)

\* A completion handler that keeps the cached proxy on a retryable failure.
callFinishedKeepsProxy(r, result, cached) ==
    IF result = <<"ok">>
    THEN [d |-> [r EXCEPT !.phase = "done"], proxy |-> cached]
    ELSE IF shouldRetry(r.attempt, result)
         THEN [d |-> scheduleRetry(r), proxy |-> cached]
         ELSE [d |-> [r EXCEPT !.phase = "done"], proxy |-> cached]

\* A retry timer that runs the same attempt number again.
nextAttemptSame(r) == r.attempt

\* extension.js:279  the attempt number the retry timer's callback passes on.
nextAttempt(r) == r.attempt + 1

\* A completion handler that retries every failure.
callFinishedRetryAll(r, result, cached) ==
    IF result = <<"ok">>
    THEN [d |-> [r EXCEPT !.phase = "done"], proxy |-> cached]
    ELSE IF r.attempt < DBUS_RETRY_ATTEMPTS
         THEN [d |-> scheduleRetry(r), proxy |-> "null"]
         ELSE [d |-> [r EXCEPT !.phase = "done"], proxy |-> cached]

\* extension.js:255-270  the completion callback of proxy.call: the dispatch
\* and this._proxy it leaves.
callFinished(r, result, cached) ==
    IF result = <<"ok">>
    THEN [d |-> [r EXCEPT !.phase = "done"], proxy |-> cached]
    ELSE IF shouldRetry(r.attempt, result)
         THEN [d |-> scheduleRetry(r), proxy |-> "null"]
         ELSE [d |-> [r EXCEPT !.phase = "done"], proxy |-> cached]

\* The class of a call result: Retryable iff it carries one of the three
\* "service not yet available" markers.
ErrorClass(result) ==
    IF result = <<"ok">> THEN "none"
    ELSE IF \E k \in 1..Len(result) : result[k] \in DBUS_RETRYABLE_ERRORS
         THEN "Retryable" ELSE "Fatal"

\* One invocation of _callDbusWithRetry for dispatch r: the dispatch it leaves.
Attempt(r, constructed) ==
    [callDbusWithRetry(r, getProxy(proxy, constructed)) EXCEPT
        !.allAbsent = @ /\ getProxy(proxy, constructed) = "null",
        !.threw = @ \/ getProxyThrows(proxy, constructed)]

\* extension.js:239-241  _callDbus: attempt 0 runs at once.
_callDbus(method, parameters, constructed) ==
    /\ proxy' = getProxy(proxy, constructed)
    /\ dispatches' = Append(dispatches,
                            Attempt(NewDispatch(method, parameters), constructed))

\* ------------------------------------------------------ extension actions

InitExt(stores) ==
    /\ InitHotkey
    /\ settingsStore \in stores
    /\ presses = 0
    /\ reads = 0
    /\ oldtext = Null
    /\ pendingText = Null
    /\ hotkeyDebounceId = 0
    /\ timers = <<>>
    /\ emitted = [n |-> 0, last |-> Null, sent |-> <<>>]
    /\ proxy = "null"
    /\ dispatches = <<>>

\* _sanitizeText about to run on text.
SanitizeCallOf(text) == [text |-> text, returned |-> FALSE, result |-> Null]

Init ==
    /\ InitPrefs
    /\ InitExt({<<"<Super>t">>})
    /\ sanitizeCall = SanitizeCallOf(Null)

\* extension.js:63-81  enable().  The shell calls enable() and disable() in turn.
Enable ==
    /\ ~settings
    /\ enableHotkey
    /\ oldtext' = Null
    /\ proxy' = "null"
    /\ hotkeyDebounceId' = 0
    /\ pendingText' = Null
    /\ UNCHANGED <<presses, reads, timers, emitted, dispatches>>
    /\ UNCHANGED sanitizeVars
    /\ UNCHANGED prefsVars

\* extension.js:83-99  disable().
Disable ==
    /\ settings
    /\ disableHotkey
    /\ hotkeyDebounceId' = clearDebounce[1]
    /\ pendingText' = clearDebounce[2]
    /\ timers' = clearDebounce[3]
    /\ proxy' = "null"
    /\ UNCHANGED <<presses, reads, oldtext, emitted, dispatches>>
    /\ UNCHANGED sanitizeVars
    /\ UNCHANGED prefsVars

\* A write to the settings store by the preferences window or any other
\* writer; the connected handler is notified.
SettingsWrite(value) ==
    /\ value \in StoreValues
    /\ changePending < MaxPending
    /\ settingsStore' = value
    /\ changePending' = IF settingsChangedId # 0 THEN changePending + 1 ELSE changePending
    /\ UNCHANGED <<settings, settingsChangedId, indicator, clipboard, hotkey,
                   hotkeyRegistered, wmBound, wmLog>>
    /\ UNCHANGED <<debounceVars, retryVars>>
    /\ UNCHANGED sanitizeVars
    /\ UNCHANGED prefsVars

\* extension.js:72-77, 109-117  the changed::hotkey handler.
OnHotkeyChanged ==
    /\ settingsChangedId # 0
    /\ changePending > 0
    /\ changePending' = changePending - 1
    /\ LET r == onHotkeyChanged(HotkeyState, hotkey, settings, settingsStore)
       IN  /\ hotkey' = r.cache
           /\ SetHotkeyState(r.hk)
    /\ UNCHANGED <<settingsStore, settings, settingsChangedId, indicator, clipboard>>
    /\ UNCHANGED <<debounceVars, retryVars>>
    /\ UNCHANGED sanitizeVars
    /\ UNCHANGED prefsVars

\* extension.js:147-152  _onHotkey: the shell runs the keybinding's callback,
\* which starts an asynchronous read of the primary selection.
OnHotkey ==
    /\ wmBound
    /\ clipboard
    /\ presses < MaxPresses
    /\ presses' = presses + 1
    /\ reads' = reads + 1
    /\ UNCHANGED <<oldtext, pendingText, hotkeyDebounceId, timers, emitted>>
    /\ UNCHANGED <<hotkeyVars, retryVars>>
    /\ UNCHANGED sanitizeVars
    /\ UNCHANGED prefsVars

\* extension.js:152-159  the get_text callback.
SelectionRead(text) ==
    /\ reads > 0
    /\ text \in SelectionTexts
    /\ reads' = reads - 1
    /\ LET candidate == sanitizeText(text)
       IN  IF candidate = Null
           THEN UNCHANGED <<oldtext, pendingText, hotkeyDebounceId, timers>>
           ELSE /\ oldtext' = candidate
                /\ scheduleTranslate(candidate)
    /\ UNCHANGED <<presses, emitted>>
    /\ UNCHANGED <<hotkeyVars, retryVars>>
    /\ UNCHANGED sanitizeVars
    /\ UNCHANGED prefsVars

\* extension.js:190-198  the debounce timer's callback, for source t.
DebounceFire(t, constructed) ==
    /\ t \in DOMAIN timers
    /\ timers' = [u \in DOMAIN timers \ {t} |-> timers[u]]
    /\ hotkeyDebounceId' = 0
    /\ pendingText' = Null
    /\ IF pendingText # Null
       THEN _callDbus("Translate", pendingText, constructed)
       ELSE UNCHANGED retryVars
    /\ emitted' = [n |-> timers[t].n, last |-> timers[t].last,
                   sent |-> [k \in 1..(Len(dispatches') - Len(dispatches)) |->
                                LET r == dispatches'[Len(dispatches) + k]
                                IN  <<r.method, r.parameters>>]]
    /\ UNCHANGED <<presses, reads, oldtext>>
    /\ UNCHANGED hotkeyVars
    /\ UNCHANGED sanitizeVars
    /\ UNCHANGED prefsVars

\* extension.js:47-50, 215-217  the History menu item: showHistory().
ShowHistory(constructed) ==
    /\ indicator
    /\ Len(dispatches) < MaxDispatches
    /\ _callDbus("ShowHistory", Null, constructed)
    /\ UNCHANGED <<hotkeyVars, debounceVars>>
    /\ UNCHANGED sanitizeVars
    /\ UNCHANGED prefsVars

\* extension.js:278-281  a retry timer's callback.
RetryFire(d, constructed) ==
    /\ d \in DOMAIN dispatches
    /\ dispatches[d].phase = "timer"
    /\ proxy' = getProxy(proxy, constructed)
    /\ dispatches' = [dispatches EXCEPT ![d] =
            Attempt([@ EXCEPT !.attempt = nextAttempt(dispatches[d]),
                              !.lastFailure = "none"], constructed)]
    /\ UNCHANGED <<hotkeyVars, debounceVars>>
    /\ UNCHANGED sanitizeVars
    /\ UNCHANGED prefsVars

\* extension.js:255-270  the completion of a proxy.call.
CallFinish(d, result) ==
    /\ d \in DOMAIN dispatches
    /\ dispatches[d].phase = "call"
    /\ result \in CallResults
    /\ LET r == callFinished(dispatches[d], result, proxy)
       IN  /\ proxy' = r.proxy
           /\ dispatches' = [dispatches EXCEPT ![d] =
                                [r.d EXCEPT !.lastFailure = ErrorClass(result)]]
    /\ UNCHANGED <<hotkeyVars, debounceVars>>
    /\ UNCHANGED sanitizeVars
    /\ UNCHANGED prefsVars

\* The hotkey controller under changes of the settings store.
NextHotkey ==
    \/ Enable
    \/ Disable
    \/ \E v \in StoreValues : SettingsWrite(v)
    \/ OnHotkeyChanged

InitAnyStore ==
    /\ InitPrefs
    /\ InitExt(StoreValues)
    /\ sanitizeCall = SanitizeCallOf(Null)

SpecHotkey == InitAnyStore /\ [][NextHotkey]_vars

\* Capture, sanitization and debounce, up to the first attempt of a dispatch.
NextDebounce ==
    \/ Enable
    \/ Disable
    \/ OnHotkey
    \/ \E text \in SelectionTexts : SelectionRead(text)
    \/ \E t \in DOMAIN timers : \E c \in BOOLEAN : DebounceFire(t, c)

SpecDebounce == Init /\ [][NextDebounce]_vars

\* The retrying dispatch, driven from the panel menu.
NextRetry ==
    \/ Enable
    \/ Disable
    \/ \E c \in BOOLEAN : ShowHistory(c)
    \/ \E d \in DOMAIN dispatches : \E c \in BOOLEAN : RetryFire(d, c)
    \/ \E d \in DOMAIN dispatches : \E res \in CallResults : CallFinish(d, res)

SpecRetry == Init /\ [][NextRetry]_vars

\* Every scheduled retry timer eventually fires and every issued call
\* eventually completes (the GLib main loop and the D-Bus call timeout).
FairRetry ==
    \A d \in 1..MaxDispatches :
        /\ WF_vars(\E c \in BOOLEAN : RetryFire(d, c))
        /\ WF_vars(\E res \in CallResults : CallFinish(d, res))

SpecRetryFair == Init /\ [][NextRetry]_vars /\ FairRetry

\* A debounce expiry, for as long as fewer than MaxDispatches dispatches exist.
Emit(t, constructed) ==
    /\ Len(dispatches) < MaxDispatches
    /\ DebounceFire(t, constructed)

\* Capture, debounce and the retrying dispatch of the emitted candidates
\* together, in one enabled period.
NextDelivery ==
    \/ Enable
    \/ OnHotkey
    \/ \E text \in SelectionTexts : SelectionRead(text)
    \/ \E t \in DOMAIN timers : \E c \in BOOLEAN : Emit(t, c)
    \/ \E d \in DOMAIN dispatches : \E c \in BOOLEAN : RetryFire(d, c)
    \/ \E d \in DOMAIN dispatches : \E res \in CallResults : CallFinish(d, res)

SpecDelivery == Init /\ [][NextDelivery]_vars

\* _sanitizeText returns.
SanitizeReturn ==
    /\ ~sanitizeCall.returned
    /\ sanitizeCall' = [sanitizeCall EXCEPT
                            !.returned = TRUE,
                            !.result = sanitizeText(sanitizeCall.text)]
    /\ UNCHANGED <<hotkeyVars, debounceVars, retryVars>>
    /\ UNCHANGED prefsVars

InitSanitize ==
    /\ InitPrefs
    /\ InitExt({<<"<Super>t">>})
    /\ sanitizeCall \in {SanitizeCallOf(t) : t \in SanitizeInputs}

\* _sanitizeText as a function of its argument.
NextSanitize == SanitizeReturn

SpecSanitize == InitSanitize /\ [][NextSanitize]_vars

\* The preferences window.
SpecPrefs == Init /\ [][NextPrefs]_vars


\* --------------------------------------------------- extension properties

\* C2: the expiry of a debounce timer that saw N >= 1 _scheduleTranslate calls
\* since it was armed dispatches exactly one Translate, with the candidate of
\* the last of those calls.
C2_OneEmissionLastCandidate ==
    emitted.n >= 1 => emitted.sent = <<(<<"Translate", emitted.last>>)>>

\* Attempts made so far for a dispatch: _callDbusWithRetry has run for
\* attempt = 0, 1, ..., r.attempt.
Attempts(r) == r.attempt + 1

\* C3 (as claimed): a dispatch makes at most 10 attempts in total.
C3_AtMostTenAttempts ==
    \A d \in DOMAIN dispatches : Attempts(dispatches[d]) <= DBUS_RETRY_ATTEMPTS

\* C3 (amended): a dispatch makes at most 11 attempts in total, the initial
\* one and at most DBUS_RETRY_ATTEMPTS retries.
C3_AtMostElevenAttempts ==
    \A d \in DOMAIN dispatches : Attempts(dispatches[d]) <= DBUS_RETRY_ATTEMPTS + 1

C3_Witness ==
    \E d \in DOMAIN dispatches :
        /\ Attempts(dispatches[d]) = DBUS_RETRY_ATTEMPTS + 1
        /\ dispatches[d].phase = "call"

\* Dispatch d's proxy.call completes in this step with an error of class c.
FailsNow(d, c) ==
    /\ dispatches[d].phase = "call"
    /\ dispatches'[d].phase # "call"
    /\ dispatches'[d].lastFailure = c

\* C4: the step that handles a Retryable failure of a call leaves this._proxy
\* null, on every attempt.
C4_InvalidatedOnRetryable ==
    [][\A d \in DOMAIN dispatches : FailsNow(d, "Retryable") => proxy' = "null"]_vars

\* C6: a dispatch for which _getProxy returned null on every attempt has issued
\* no call and raised no error, makes no attempt beyond the ceiling, and at the
\* ceiling has no retry timer pending.
C6_NoConnectionNoCall ==
    \A d \in DOMAIN dispatches :
        dispatches[d].allAbsent =>
            /\ ~dispatches[d].called
            /\ ~dispatches[d].threw
            /\ dispatches[d].attempt <= DBUS_RETRY_ATTEMPTS
            /\ dispatches[d].attempt >= DBUS_RETRY_ATTEMPTS => dispatches[d].phase = "done"

C6_Witness ==
    \E d \in DOMAIN dispatches :
        /\ dispatches[d].allAbsent
        /\ dispatches[d].attempt = DBUS_RETRY_ATTEMPTS
        /\ dispatches[d].phase = "done"

\* C7: the step that handles a Fatal failure of the call of attempt k ends the
\* dispatch at attempt k with no retry timer and leaves this._proxy as it was,
\* and the dispatch never changes again.
C7_FatalStops ==
    [][\A d \in DOMAIN dispatches :
          /\ FailsNow(d, "Fatal") =>
                /\ dispatches'[d].phase = "done"
                /\ dispatches'[d].attempt = dispatches[d].attempt
                /\ proxy' = proxy
          /\ (dispatches[d].phase = "done" /\ dispatches[d].lastFailure = "Fatal") =>
                dispatches'[d] = dispatches[d]]_vars

C7_Witness ==
    \E d \in DOMAIN dispatches :
        /\ dispatches[d].phase = "done"
        /\ dispatches[d].lastFailure = "Fatal"
        /\ dispatches[d].attempt >= 1
        /\ proxy = "proxy"

\* The binding the settings store holds is non-empty.
BindingNonEmpty == getHotkeyValue(TRUE, settingsStore) # ""

\* C10: while the extension is enabled, whenever no change notification is
\* waiting, and right after enable() and after each run of the change handler,
\* the accelerator is registered iff the binding in the settings store is
\* non-empty.
C10_RegisteredIffNonEmpty ==
    /\ [](settings /\ changePending = 0 =>
            /\ hotkeyRegistered <=> BindingNonEmpty
            /\ wmBound <=> BindingNonEmpty)
    /\ [][(settings' /\ (~settings \/ changePending' < changePending)) =>
            /\ hotkeyRegistered' <=> BindingNonEmpty'
            /\ wmBound' <=> BindingNonEmpty']_vars

C10_Witness ==
    /\ settings
    /\ changePending = 0
    /\ ~BindingNonEmpty
    /\ ~hotkeyRegistered
    /\ wmLog = <<"removeKeybinding">>


\* This step is a run of enable(), disable() or the change handler.
HotkeyHandlerStep == settings' # settings \/ changePending' < changePending

\* This step is a run of the change handler (disable() clears settings).
ChangeHandlerStep == settings /\ settings' /\ changePending' < changePending

\* Some addKeybinding of log was made while Main.wm still held the binding,
\* given that it held it (bound) before the first call of log.
DuplicateAdd(bound, log) ==
    \E k \in 1..Len(log) :
        /\ log[k] = "addKeybinding"
        /\ IF k = 1 THEN bound ELSE log[k - 1] = "addKeybinding"

\* C11: no handler calls Main.wm.addKeybinding while the accelerator is still
\* registered: every registration follows an unregistration or the unbound
\* state.
C11_NoDuplicateRegistration ==
    [][HotkeyHandlerStep => ~DuplicateAdd(wmBound, wmLog')]_vars

C11_Witness ==
    /\ settings
    /\ wmBound
    /\ wmLog = <<"removeKeybinding", "addKeybinding">>

\* C12: a run of the change handler that re-reads a binding equal to the cached
\* value calls neither removeKeybinding nor addKeybinding and leaves the cached
\* value and the registration as they were.
C12_UnchangedIsNoOp ==
    [][(ChangeHandlerStep /\ getHotkeyValue(settings, settingsStore) = hotkey) =>
          /\ wmLog' = <<>>
          /\ hotkey' = hotkey
          /\ hotkeyRegistered' = hotkeyRegistered
          /\ wmBound' = wmBound]_vars

C12_Witness ==
    /\ settings
    /\ hotkeyRegistered
    /\ wmLog = <<>>


\* The first MAX_TEXT_LEN code units of a text.
Prefix(t) == [k \in 1..(IF Len(t) > MAX_TEXT_LEN THEN MAX_TEXT_LEN ELSE Len(t)) |-> t[k]]

CodeUnits(t) == {t[k] : k \in 1..Len(t)}

\* The rejection set of the sanitizer, on the truncated text.
Rejected(t) ==
    \/ t = Null
    \/ Prefix(t) = <<>>
    \/ Prefix(t)[1] = "/"
    \/ hasUrl(Prefix(t))
    \/ CodeUnits(Prefix(t)) \subseteq ({".", "-"} \cup Whitespace \cup Digits)

\* C14: _sanitizeText returns null exactly for a null input and for a text
\* whose first MAX_TEXT_LEN code units are empty, begin with '/', contain a URL
\* or are all of '.', whitespace, digits and '-'; otherwise it returns those
\* code units unchanged.  "", null and "/path" give null.
C14_RejectionSet ==
    sanitizeCall.returned =>
        /\ (sanitizeCall.result = Null) <=> Rejected(sanitizeCall.text)
        /\ sanitizeCall.result # Null =>
              sanitizeCall.result = Prefix(sanitizeCall.text)
        /\ sanitizeCall.text \in {Null, <<>>, <<"/", "p", "a", "t", "h">>} =>
              sanitizeCall.result = Null

C14_Witness ==
    /\ sanitizeCall.returned
    /\ sanitizeCall.text = <<"/", "p", "a", "t", "h">>
    /\ sanitizeCall.result = Null

\* C15: for a text longer than MAX_TEXT_LEN the result is the result for its
\* first MAX_TEXT_LEN code units: the rest neither causes nor prevents a
\* rejection, and a non-null result is exactly that prefix; no result is longer
\* than MAX_TEXT_LEN.
C15_TruncationFirst ==
    sanitizeCall.returned =>
        /\ sanitizeCall.result # Null => Len(sanitizeCall.result) <= MAX_TEXT_LEN
        /\ (sanitizeCall.text # Null /\ Len(sanitizeCall.text) > MAX_TEXT_LEN) =>
              /\ sanitizeCall.result = sanitizeText(Prefix(sanitizeCall.text))
              /\ sanitizeCall.result \in {Null, Prefix(sanitizeCall.text)}

C15_Witness ==
    /\ sanitizeCall.returned
    /\ sanitizeCall.text # Null
    /\ Len(sanitizeCall.text) > MAX_TEXT_LEN
    /\ hasUrl(sanitizeCall.text)
    /\ sanitizeCall.result = Prefix(sanitizeCall.text)


\* This step is a _scheduleTranslate call (a get_text callback whose candidate
\* was accepted).
ScheduleStep == reads' < reads /\ timers' # timers

\* This step is a debounce expiry that dispatched a Translate.
EmissionStep == Len(dispatches') > Len(dispatches) /\ DOMAIN timers' # DOMAIN timers

\* C17: a _scheduleTranslate call made while the debounce timer is armed
\* (_hotkeyDebounceId names a source) creates no timer and restarts none, and a
\* Translate is dispatched only by the expiry of the timer the burst's first
\* call armed (the one _hotkeyDebounceId names).
C17_TimerNotReset ==
    /\ [][(ScheduleStep /\ hotkeyDebounceId # 0) =>
            /\ DOMAIN timers' = DOMAIN timers
            /\ \A t \in DOMAIN timers : timers'[t].n = timers[t].n + 1]_vars
    /\ [][EmissionStep =>
            /\ hotkeyDebounceId # 0
            /\ hotkeyDebounceId \notin DOMAIN timers']_vars


\* This step is disable(), the only caller of _clearDebounce.
ClearDebounceStep == settings /\ ~settings'

\* C18: _clearDebounce called while the timer is armed (_hotkeyDebounceId names
\* a source) removes that source, clears the stored candidate and leaves the
\* debouncer idle without dispatching; called while idle it changes nothing.
\* An idle debouncer stores no candidate and an expiry dispatches only the
\* candidate stored at that moment, so the cleared candidate is never emitted.
C18_ClearDiscards ==
    /\ [][ClearDebounceStep =>
            IF hotkeyDebounceId # 0
            THEN /\ hotkeyDebounceId \in DOMAIN timers
                 /\ DOMAIN timers' = DOMAIN timers \ {hotkeyDebounceId}
                 /\ hotkeyDebounceId' = 0
                 /\ pendingText' = Null
                 /\ dispatches' = dispatches
            ELSE UNCHANGED <<hotkeyDebounceId, pendingText, timers, dispatches>>]_vars
    /\ [](hotkeyDebounceId = 0 => pendingText = Null)
    /\ [][EmissionStep =>
            /\ pendingText # Null
            /\ Len(dispatches') = Len(dispatches) + 1
            /\ dispatches'[Len(dispatches')].method = "Translate"
            /\ dispatches'[Len(dispatches')].parameters = pendingText]_vars

C18_Witness ==
    /\ ~settings
    /\ oldtext # Null
    /\ timers = <<>>
    /\ emitted.n = 0
    /\ pendingText = Null
    /\ hotkeyDebounceId = 0


\* This step runs an attempt of dispatch d: _callDbus created it, or its retry
\* timer fired.
AttemptStep(d) ==
    \/ d > Len(dispatches)
    \/ d <= Len(dispatches) /\ dispatches[d].phase = "timer"
                            /\ dispatches'[d] # dispatches[d]

\* C19: the step that handles a Retryable failure of the call of attempt k
\* below the ceiling leaves this._proxy null and the dispatch waiting on its
\* retry timer; the timer's firing runs attempt k + 1 of the same method and
\* parameters; an attempt below the ceiling that gets no proxy issues no call
\* and leaves the dispatch waiting on its retry timer.
C19_RetryStep ==
    [][\A d \in DOMAIN dispatches' :
          /\ (d <= Len(dispatches) /\ FailsNow(d, "Retryable")
                /\ dispatches[d].attempt < DBUS_RETRY_ATTEMPTS) =>
                /\ proxy' = "null"
                /\ dispatches'[d].phase = "timer"
                /\ dispatches'[d].attempt = dispatches[d].attempt
          /\ (d <= Len(dispatches) /\ AttemptStep(d)) =>
                /\ dispatches'[d].attempt = dispatches[d].attempt + 1
                /\ dispatches'[d].method = dispatches[d].method
                /\ dispatches'[d].parameters = dispatches[d].parameters
          /\ (AttemptStep(d) /\ proxy' = "null"
                /\ dispatches'[d].attempt < DBUS_RETRY_ATTEMPTS) =>
                /\ dispatches'[d].phase = "timer"
                /\ dispatches'[d].called = (d <= Len(dispatches) /\ dispatches[d].called)]_vars

C19_Witness ==
    \E d \in DOMAIN dispatches :
        /\ dispatches[d].attempt = 1
        /\ dispatches[d].phase = "timer"
        /\ dispatches[d].lastFailure = "Retryable"
        /\ dispatches[d].called
        /\ proxy = "null"

\* C20: with every retry timer firing and every call completing, each dispatch
\* eventually is done (it succeeded, failed fatally or used up its attempts),
\* and a done dispatch has no timer and no call and never changes again.
C20_DispatchTerminates ==
    /\ \A d \in 1..MaxDispatches :
          (d \in DOMAIN dispatches) ~>
              (d \in DOMAIN dispatches /\ dispatches[d].phase = "done")
    /\ [][\A d \in DOMAIN dispatches :
            dispatches[d].phase = "done" => dispatches'[d] = dispatches[d]]_vars
    /\ [](\A d \in DOMAIN dispatches :
            dispatches[d].phase = "done" =>
               \/ dispatches[d].called /\ dispatches[d].lastFailure = "none"
               \/ dispatches[d].lastFailure = "Fatal"
               \/ dispatches[d].attempt = DBUS_RETRY_ATTEMPTS)

C20_Witness ==
    /\ Len(dispatches) = MaxDispatches
    /\ \A d \in DOMAIN dispatches : dispatches[d].phase = "done"
    /\ \E d \in DOMAIN dispatches : dispatches[d].attempt = DBUS_RETRY_ATTEMPTS
    /\ \E d \in DOMAIN dispatches :
          dispatches[d].called /\ dispatches[d].lastFailure = "none"


\* This step is the callback of a debounce timer (disable() is the only other
\* step that removes a source).
ExpiryStep ==
    /\ settings' = settings
    /\ \E t \in DOMAIN timers : t \notin DOMAIN timers'

\* C21: between callbacks a candidate is stored exactly when the debounce
\* timer is armed (_pendingText non-null iff _hotkeyDebounceId non-zero), at
\* most one debounce source is live, and no debounce callback runs with
\* nothing pending.
C21_PendingIffArmed ==
    /\ []((pendingText # Null) <=> (hotkeyDebounceId # 0))
    /\ [](Cardinality(DOMAIN timers) <= 1)
    /\ [][ExpiryStep => pendingText # Null]_vars


\* This step runs while the extension is disabled (neither enable() nor
\* disable() itself).
DisabledStep == ~settings /\ ~settings'

\* C22: while the extension is disabled no debounce timer is armed, no proxy is
\* constructed and no D-Bus call is issued, whatever read callback or retry
\* timer was outstanding when disable() ran.
C22_QuietWhileDisabled ==
    [][DisabledStep =>
          /\ DOMAIN timers' \subseteq DOMAIN timers
          /\ proxy' = "null"
          /\ Len(dispatches') = Len(dispatches)
          /\ \A d \in DOMAIN dispatches :
                dispatches'[d].phase = "call" => dispatches[d].phase = "call"]_vars


\* This step is the successful completion of the call of dispatch d.
DeliveredNow(d) ==
    /\ dispatches[d].method = "Translate"
    /\ dispatches[d].phase = "call"
    /\ dispatches'[d].phase = "done"
    /\ dispatches'[d].lastFailure = "none"

\* C23: of two Translate dispatches of different texts, the one emitted first
\* is never delivered successfully by a call sent after the one emitted later
\* had been delivered.
C23_DeliveryOrder ==
    [][\A a \in DOMAIN dispatches :
          DeliveredNow(a) =>
             \A b \in dispatches[a].sentAfter :
                dispatches[b].parameters # dispatches[a].parameters => b < a]_vars

====
